---- MODULE Spec2Model ----
(***************************************************************************)
(* A model of google/cloud/bigtable/backup.py: the Backup descriptor, its  *)
(* properties, its name parser (from_pb) and the operations it forwards to *)
(* the table admin client.                                                 *)
(*                                                                         *)
(* Python strings are sequences of one-character strings, so that building *)
(* a name and matching it against _BACKUP_NAME_RE are real computations.   *)
(* Python's None is the tagged tuple None; a datetime is                   *)
(* <<"datetime", microseconds>>, an int <<"int", n>>, a Backup.State is    *)
(* <<"State", n>>, a Backup protobuf <<"Backup", record>>.  "Falsy" is     *)
(* Python's: None and the empty string.                                    *)
(***************************************************************************)
EXTENDS Integers, Sequences, FiniteSets, TLC

VARIABLES
    b,          \* the Backup object the caller holds (its attributes)
    pre,        \* the same object as it was before the last operation
    op,         \* the last operation and its arguments
    res,        \* how it ended: [kind, val] ("return", or the exception raised)
    calls,      \* the table admin client calls the last operation made, in order
    refreshed   \* whether a refresh() has completed on this object

vars == <<b, pre, op, res, calls, refreshed>>

(***************************************************************************)
(* Bounds of the model.                                                    *)
(***************************************************************************)
MaxTime == 2    \* how many distinct datetimes callers and the server use

(***************************************************************************)
(* Values.                                                                 *)
(***************************************************************************)
None == <<"None">>
Datetime(us) == <<"datetime", us>>
IntVal(n) == <<"int", n>>
State(n) == <<"State", n>>
Pb(r) == <<"Backup", r>>

\* Python truthiness of the values the code tests with "not x" / "if x".
Truthy(x) == x # None /\ x # <<>>

CREATING == State(1)
READY == State(2)

Lower == {"a", "b", "c", "d", "e", "f", "g", "h", "i", "j", "k", "l", "m",
          "n", "o", "p", "q", "r", "s", "t", "u", "v", "w", "x", "y", "z"}
Digit == {"0", "1", "2", "3", "4", "5", "6", "7", "8", "9"}

LIT_projects == <<"p", "r", "o", "j", "e", "c", "t", "s", "/">>
LIT_instances == <<"/", "i", "n", "s", "t", "a", "n", "c", "e", "s", "/">>
LIT_clusters == <<"/", "c", "l", "u", "s", "t", "e", "r", "s", "/">>
LIT_backups == <<"/", "b", "a", "c", "k", "u", "p", "s", "/">>
LIT_tables == <<"/", "t", "a", "b", "l", "e", "s", "/">>

\* Exception messages (the text of each ValueError).
MSG_CLUSTER == "\"cluster\" parameter must be set"
MSG_EXPIRE == "\"expire_time\" parameter must be set"
MSG_TABLE == "\"table\" parameter must be set"
MSG_FORMAT == "Backup protobuf name was not in the expected format."
MSG_PROJECT == "Project ID of the Backup does not match the Project ID of the instance's client"
MSG_INSTANCE == "Instance ID of the Backup does not match the Instance ID of the instance"

(***************************************************************************)
(* The inputs callers and the server draw from.                            *)
(***************************************************************************)
TimeValues == {Datetime(k * 750000) : k \in 1..MaxTime}

\* [project, instance_id] of the Instance objects in play ("I1" is not an
\* instance id of the name grammar)
Instances == {[project |-> <<"p">>, instance_id |-> <<"i", "1">>],
              [project |-> <<"q">>, instance_id |-> <<"i", "1">>],
              [project |-> <<"q">>, instance_id |-> <<"i", "-", "2">>],
              [project |-> <<"p">>, instance_id |-> <<"I", "1">>]}
\* "b" is too short for the name grammar and "B1" is upper case
BackupIds == {<<"b", "1">>, <<"b", "_", "a">>, <<"b">>, <<"B", "1">>}
\* "C1" is not a cluster id of the name grammar
ClusterIds == {<<"c", "1">>, <<"c", "-", "2">>, <<"C", "1">>}
ClusterArgs == {None, <<>>} \cup ClusterIds
TableIds == {<<"t", "1">>, <<"t", "2">>}
TableArgs == {None} \cup TableIds
ExpireArgs == {None} \cup TimeValues

(***************************************************************************)
(* Results of a method: the object afterwards, how the method ended and    *)
(* the admin client calls it made.                                         *)
(***************************************************************************)
Return(d, v) == [d |-> d, kind |-> "return", val |-> v, calls |-> <<>>]
Raise(d, exc, msg) == [d |-> d, kind |-> exc, val |-> msg, calls |-> <<>>]

\* The admin client answers a call with a value or raises an API error.
ApiErrors == {"NotFound", "PermissionDenied"}
Ok(v) == [ok |-> TRUE, val |-> v]
Err(e) == [ok |-> FALSE, val |-> <<"Error", e>>]
ApiCall(method, args, reply) == [method |-> method, args |-> args, reply |-> reply]

\* instance.name of the owning Instance
InstanceName(inst) ==
    LIT_projects \o inst.project \o LIT_instances \o inst.instance_id

\* Backup.__init__
Backup(backup_id, instance, cluster_id, table_id, expire_time) ==
    [backup_id |-> backup_id,
     instance |-> instance,
     cluster |-> cluster_id,
     table_id |-> table_id,
     expire_time |-> expire_time,
     parent |-> None,
     source_table |-> None,
     start_time |-> None,
     end_time |-> None,
     size_bytes |-> None,
     state |-> None]

\* Backup.parent: computed on first use and cached in _parent
parent(d) ==
    LET d1 == IF ~Truthy(d.parent) /\ Truthy(d.cluster)
              THEN [d EXCEPT !.parent =
                        InstanceName(d.instance) \o LIT_clusters \o d.cluster]
              ELSE d
    IN Return(d1, d1.parent)

\* name, had it been built on the cached parent path
name_fromParent(d) ==
    IF ~Truthy(d.cluster)
    THEN Raise(d, "ValueError", MSG_CLUSTER)
    ELSE LET pa == parent(d)
         IN Return(pa.d, pa.val \o LIT_backups \o d.backup_id)

\* Backup.name
name(d) ==
    IF ~Truthy(d.cluster)
    THEN Raise(d, "ValueError", MSG_CLUSTER)
    ELSE Return(d, InstanceName(d.instance) \o LIT_clusters \o d.cluster
                       \o LIT_backups \o d.backup_id)

\* Backup.cluster (getter and setter)
cluster(d) == Return(d, d.cluster)
cluster_setter(d, cluster_id) == Return([d EXCEPT !.cluster = cluster_id], None)

\* Backup.source_table: computed on first use and cached in _source_table
source_table(d) ==
    LET d1 == IF ~Truthy(d.source_table) /\ Truthy(d.table_id)
              THEN [d EXCEPT !.source_table =
                        InstanceName(d.instance) \o LIT_tables \o d.table_id]
              ELSE d
    IN Return(d1, d1.source_table)

\* Backup.expire_time (getter and setter)
expire_time(d) == Return(d, d.expire_time)
expire_time_setter(d, new_expire_time) ==
    Return([d EXCEPT !.expire_time = new_expire_time], None)

\* Backup.start_time, end_time, size_bytes, state
start_time(d) == Return(d, d.start_time)
end_time(d) == Return(d, d.end_time)
size_bytes(d) == Return(d, d.size_bytes)
state(d) == Return(d, d.state)

(***************************************************************************)
(* _BACKUP_NAME_RE and re.match.  The pattern is anchored at both ends.    *)
(* No class of the pattern holds "/", and each group is followed by a      *)
(* literal that starts with "/" (or by the end), so the only match takes   *)
(* each group as the whole run up to the next "/": greedy matching needs   *)
(* no backtracking except for the last character of backup_id.  Python's   *)
(* "$" matches at the end of the string and also just before a newline     *)
(* that ends the string.                                                   *)
(***************************************************************************)
NoMatch == [matched |-> FALSE]

\* the index after literal lit at s[i..], or 0 when it is not there
MatchLit(s, i, lit) ==
    IF i >= 1 /\ i + Len(lit) - 1 <= Len(s) /\ SubSeq(s, i, i + Len(lit) - 1) = lit
    THEN i + Len(lit)
    ELSE 0

\* [^/]*: the index after the longest run of non-slash characters from i
RECURSIVE SpanNonSlash(_, _)
SpanNonSlash(s, i) ==
    IF i <= Len(s) /\ s[i] # "/" THEN SpanNonSlash(s, i + 1) ELSE i

\* [class]*: the index after the longest run of characters of class from i
RECURSIVE SpanIn(_, _, _)
SpanIn(s, i, class) ==
    IF i <= Len(s) /\ s[i] \in class THEN SpanIn(s, i + 1, class) ELSE i

\* [a-z][-a-z0-9]* from i: the index after it, or 0
MatchId(s, i) ==
    IF i >= 1 /\ i <= Len(s) /\ s[i] \in Lower
    THEN SpanIn(s, i + 1, Lower \cup Digit \cup {"-"})
    ELSE 0

\* [a-z][a-z0-9_\-]*[a-z0-9]$ from i: the index of its last character, or 0
MatchBackupIdToEnd(s, i) ==
    LET n == Len(s)
        ends == {n} \cup (IF n >= 1 /\ s[n] = "\n" THEN {n - 1} ELSE {})
        good == {e \in ends :
                    /\ i >= 1 /\ e > i
                    /\ s[i] \in Lower
                    /\ \A k \in (i + 1)..(e - 1) : s[k] \in Lower \cup Digit \cup {"_", "-"}
                    /\ s[e] \in Lower \cup Digit}
    IN IF good = {} THEN 0 ELSE CHOOSE e \in good : TRUE

\* _BACKUP_NAME_RE.match(s): the groups, or NoMatch
BACKUP_NAME_RE_match(s) ==
    LET p0 == MatchLit(s, 1, LIT_projects)
        p1 == SpanNonSlash(s, p0)
        i0 == IF p0 > 0 /\ p1 > p0 THEN MatchLit(s, p1, LIT_instances) ELSE 0
        i1 == IF i0 > 0 THEN MatchId(s, i0) ELSE 0
        c0 == IF i1 > 0 THEN MatchLit(s, i1, LIT_clusters) ELSE 0
        c1 == IF c0 > 0 THEN MatchId(s, c0) ELSE 0
        b0 == IF c1 > 0 THEN MatchLit(s, c1, LIT_backups) ELSE 0
        b1 == IF b0 > 0 THEN MatchBackupIdToEnd(s, b0) ELSE 0
    IN IF b1 = 0
       THEN NoMatch
       ELSE [matched |-> TRUE,
             project |-> SubSeq(s, p0, p1 - 1),
             instance_id |-> SubSeq(s, i0, i1 - 1),
             cluster_id |-> SubSeq(s, c0, c1 - 1),
             backup_id |-> SubSeq(s, b0, b1)]

\* from_pb, had it taken the cluster_id group for the backup id
from_pb_groupCluster(backup_pb, instance) ==
    LET match == BACKUP_NAME_RE_match(backup_pb.name)
    IN IF ~match.matched
       THEN Raise(None, "ValueError", MSG_FORMAT)
       ELSE IF match.project # instance.project
       THEN Raise(None, "ValueError", MSG_PROJECT)
       ELSE IF match.instance_id # instance.instance_id
       THEN Raise(None, "ValueError", MSG_INSTANCE)
       ELSE Return(None, Backup(match.cluster_id, instance, None, None, None))

\* from_pb, had it kept the cluster of the name
from_pb_keepCluster(backup_pb, instance) ==
    LET match == BACKUP_NAME_RE_match(backup_pb.name)
    IN IF ~match.matched
       THEN Raise(None, "ValueError", MSG_FORMAT)
       ELSE IF match.project # instance.project
       THEN Raise(None, "ValueError", MSG_PROJECT)
       ELSE IF match.instance_id # instance.instance_id
       THEN Raise(None, "ValueError", MSG_INSTANCE)
       ELSE Return(None, Backup(match.backup_id, instance, match.cluster_id, None, None))

\* Backup.from_pb (a classmethod: instance is the expected owner)
from_pb(backup_pb, instance) ==
    LET match == BACKUP_NAME_RE_match(backup_pb.name)
    IN IF ~match.matched
       THEN Raise(None, "ValueError", MSG_FORMAT)
       ELSE IF match.project # instance.project
       THEN Raise(None, "ValueError", MSG_PROJECT)
       ELSE IF match.instance_id # instance.instance_id
       THEN Raise(None, "ValueError", MSG_INSTANCE)
       ELSE Return(None, Backup(match.backup_id, instance, None, None, None))

\* google.cloud._helpers._datetime_to_pb_timestamp, on a datetime
datetime_to_pb_timestamp(when) ==
    [seconds |-> when[2] \div 1000000, nanos |-> (when[2] % 1000000) * 1000]

\* the end of a method that ends with a call of the admin client
AfterCall(d, call) ==
    IF call.reply.ok
    THEN [d |-> d, kind |-> "return", val |-> call.reply.val, calls |-> <<call>>]
    ELSE [d |-> d, kind |-> call.reply.val[2], val |-> call.method, calls |-> <<call>>]

\* Backup.create, from the request dict on: the two cached properties are
\* read in this order, then the call is made
create_request(d, reply) ==
    LET st == source_table(d)
        backup == [source_table |-> st.val,
                   expire_time |-> datetime_to_pb_timestamp(st.d.expire_time)]
        pa == parent(st.d)
    IN AfterCall(pa.d, ApiCall("create_backup", <<pa.val, pa.d.backup_id, backup>>, reply))

\* create, had it checked table_id before expire_time
create_tableFirst(d, cluster_id, reply) ==
    IF ~Truthy(d.table_id)
    THEN Raise(d, "ValueError", MSG_TABLE)
    ELSE IF ~Truthy(d.expire_time)
    THEN Raise(d, "ValueError", MSG_EXPIRE)
    ELSE LET d1 == IF Truthy(cluster_id) THEN [d EXCEPT !.cluster = cluster_id] ELSE d
         IN IF ~Truthy(d1.cluster)
            THEN Raise(d1, "ValueError", MSG_CLUSTER)
            ELSE create_request(d1, reply)

\* create, had it stored its cluster_id before checking expire_time and table_id
create_clusterFirst(d, cluster_id, reply) ==
    LET d1 == IF Truthy(cluster_id) THEN [d EXCEPT !.cluster = cluster_id] ELSE d
    IN IF ~Truthy(d1.expire_time)
       THEN Raise(d1, "ValueError", MSG_EXPIRE)
       ELSE IF ~Truthy(d1.table_id)
       THEN Raise(d1, "ValueError", MSG_TABLE)
       ELSE IF ~Truthy(d1.cluster)
       THEN Raise(d1, "ValueError", MSG_CLUSTER)
       ELSE create_request(d1, reply)

\* Backup.create
create(d, cluster_id, reply) ==
    IF ~Truthy(d.expire_time)
    THEN Raise(d, "ValueError", MSG_EXPIRE)
    ELSE IF ~Truthy(d.table_id)
    THEN Raise(d, "ValueError", MSG_TABLE)
    ELSE LET d1 == IF Truthy(cluster_id) THEN [d EXCEPT !.cluster = cluster_id] ELSE d
         IN IF ~Truthy(d1.cluster)
            THEN Raise(d1, "ValueError", MSG_CLUSTER)
            ELSE create_request(d1, reply)

\* get, had it caught every exception of the call, not NotFound alone
get_swallowAll(d, reply) ==
    LET nm == name(d)
    IN IF nm.kind # "return"
       THEN nm
       ELSE LET call == ApiCall("get_backup", <<nm.val>>, reply)
            IN IF ~reply.ok
               THEN [d |-> d, kind |-> "return", val |-> None, calls |-> <<call>>]
               ELSE AfterCall(d, call)

\* get, had it kept the state of the Backup it fetched
get_storeState(d, reply) ==
    LET nm == name(d)
    IN IF nm.kind # "return"
       THEN nm
       ELSE LET call == ApiCall("get_backup", <<nm.val>>, reply)
            IN IF ~reply.ok /\ reply.val[2] = "NotFound"
               THEN [d |-> d, kind |-> "return", val |-> None, calls |-> <<call>>]
               ELSE IF reply.ok
               THEN AfterCall([d EXCEPT !.state = reply.val[2].state], call)
               ELSE AfterCall(d, call)

\* Backup.get
get(d, reply) ==
    LET nm == name(d)
    IN IF nm.kind # "return"
       THEN nm
       ELSE LET call == ApiCall("get_backup", <<nm.val>>, reply)
            IN IF ~reply.ok /\ reply.val[2] = "NotFound"
               THEN [d |-> d, kind |-> "return", val |-> None, calls |-> <<call>>]
               ELSE AfterCall(d, call)

\* Backup.refresh
refresh(d, reply) ==
    LET g == get(d, reply)
    IN IF g.kind # "return"
       THEN g
       ELSE IF g.val = None
       THEN [g EXCEPT !.kind = "AttributeError",
                      !.val = "'NoneType' object has no attribute 'source_table'"]
       ELSE LET backup == g.val[2]
            IN [g EXCEPT !.d = [g.d EXCEPT !.source_table = backup.source_table,
                                           !.expire_time = backup.expire_time,
                                           !.start_time = backup.start_time,
                                           !.end_time = backup.end_time,
                                           !.size_bytes = backup.size_bytes,
                                           !.state = backup.state],
                         !.val = None]

\* Backup.exists
exists(d, reply) ==
    LET g == get(d, reply)
    IN IF g.kind # "return" THEN g ELSE [g EXCEPT !.val = (g.val # None)]

\* update_expire_time, had it set the local field before the call
update_expire_time_setFirst(d, new_expire_time, reply) ==
    LET nm == name(d)
    IN IF nm.kind # "return"
       THEN nm
       ELSE IF new_expire_time = None
       THEN Raise(d, "AttributeError", "'NoneType' object has no attribute 'tzinfo'")
       ELSE LET d1 == [d EXCEPT !.expire_time = new_expire_time]
                backup_update == [name |-> nm.val,
                                  expire_time |-> datetime_to_pb_timestamp(new_expire_time)]
                update_mask == [paths |-> <<"expire_time">>]
                r == AfterCall(d1, ApiCall("update_backup",
                                           <<backup_update, update_mask>>, reply))
            IN IF r.kind # "return" THEN r ELSE [r EXCEPT !.val = None]

\* Backup.update_expire_time
update_expire_time(d, new_expire_time, reply) ==
    LET nm == name(d)
    IN IF nm.kind # "return"
       THEN nm
       ELSE IF new_expire_time = None
       THEN Raise(d, "AttributeError", "'NoneType' object has no attribute 'tzinfo'")
       ELSE LET backup_update == [name |-> nm.val,
                                  expire_time |-> datetime_to_pb_timestamp(new_expire_time)]
                update_mask == [paths |-> <<"expire_time">>]
                r == AfterCall(d, ApiCall("update_backup",
                                          <<backup_update, update_mask>>, reply))
            IN IF r.kind # "return"
               THEN r
               ELSE [r EXCEPT !.d = [d EXCEPT !.expire_time = new_expire_time],
                              !.val = None]

\* Backup.is_ready
is_ready(d) == Return(d, d.state = READY)

\* Backup.delete
delete(d, reply) ==
    LET nm == name(d)
    IN IF nm.kind # "return"
       THEN nm
       ELSE LET r == AfterCall(d, ApiCall("delete_backup", <<nm.val>>, reply))
            IN IF r.kind = "return" THEN [r EXCEPT !.val = None] ELSE r

\* Backup.restore
restore(d, table_id, reply) ==
    LET nm == name(d)
    IN IF nm.kind # "return"
       THEN nm
       ELSE AfterCall(d, ApiCall("restore_table",
                                 <<InstanceName(d.instance), table_id, nm.val>>, reply))

(***************************************************************************)
(* The state machine: one caller holding one Backup object, calling its    *)
(* methods one at a time (the class has no concurrency of its own).        *)
(***************************************************************************)

\* what get_backup may answer for the object: the server's Backup message
ServerBackups(d) ==
    {Pb([name |-> name(d).val,
         source_table |-> InstanceName(d.instance) \o LIT_tables \o <<"t", "1">>,
         expire_time |-> t,
         start_time |-> Datetime(750000),
         end_time |-> IF st = READY THEN t ELSE Datetime(0),
         size_bytes |-> IF st = READY THEN IntVal(4096) ELSE IntVal(0),
         state |-> st])
        : t \in TimeValues, st \in {CREATING, READY}}

Errors == {Err(e) : e \in ApiErrors}
\* the handle create_backup and restore_table return
OperationFuture == <<"OperationFuture">>

\* the step of the caller: method o ended as r
Step(o, r) ==
    /\ pre' = b
    /\ b' = r.d
    /\ op' = o
    /\ res' = [kind |-> r.kind, val |-> r.val]
    /\ calls' = r.calls

Call(nm, args) == [name |-> nm, args |-> args]

\* the caller's instance and backup id in the lifecycle specification
InitInstances == {[project |-> <<"p">>, instance_id |-> <<"i", "1">>]}
InitBackupIds == {<<"b", "1">>}

Init ==
    /\ \E backup_id \in InitBackupIds, instance \in InitInstances,
          cluster_id \in ClusterArgs \ {<<"C", "1">>}, table_id \in TableArgs,
          et \in ExpireArgs :
            b = Backup(backup_id, instance, cluster_id, table_id, et)
    /\ pre = b
    /\ op = Call("__init__", <<>>)
    /\ res = [kind |-> "return", val |-> None]
    /\ calls = <<>>
    /\ refreshed = FALSE

Create ==
    \E cluster_id \in ClusterArgs \ {<<"C", "1">>},
       reply \in {Ok(OperationFuture)} \cup Errors :
        /\ Step(Call("create", <<cluster_id>>), create(b, cluster_id, reply))
        /\ UNCHANGED refreshed

Get ==
    \E reply \in {Ok(pb) : pb \in ServerBackups(b)} \cup Errors :
        /\ Step(Call("get", <<>>), get(b, reply))
        /\ UNCHANGED refreshed

Refresh ==
    \E reply \in {Ok(pb) : pb \in ServerBackups(b)} \cup Errors :
        LET r == refresh(b, reply)
        IN /\ Step(Call("refresh", <<>>), r)
           /\ refreshed' = (refreshed \/ r.kind = "return")

Exists ==
    \E reply \in {Ok(pb) : pb \in ServerBackups(b)} \cup Errors :
        /\ Step(Call("exists", <<>>), exists(b, reply))
        /\ UNCHANGED refreshed

UpdateExpireTime ==
    \E new_expire_time \in ExpireArgs, reply \in {Ok(None)} \cup Errors :
        /\ Step(Call("update_expire_time", <<new_expire_time>>),
                update_expire_time(b, new_expire_time, reply))
        /\ UNCHANGED refreshed

IsReady ==
    /\ Step(Call("is_ready", <<>>), is_ready(b))
    /\ UNCHANGED refreshed

Delete ==
    \E reply \in {Ok(None)} \cup Errors :
        /\ Step(Call("delete", <<>>), delete(b, reply))
        /\ UNCHANGED refreshed

Restore ==
    \E table_id \in TableIds, reply \in {Ok(OperationFuture)} \cup Errors :
        /\ Step(Call("restore", <<table_id>>), restore(b, table_id, reply))
        /\ UNCHANGED refreshed

ReadName ==
    /\ Step(Call("name", <<>>), name(b))
    /\ UNCHANGED refreshed

ReadParent ==
    /\ Step(Call("parent", <<>>), parent(b))
    /\ UNCHANGED refreshed

ReadSourceTable ==
    /\ Step(Call("source_table", <<>>), source_table(b))
    /\ UNCHANGED refreshed

ReadProperty ==
    /\ \/ Step(Call("cluster", <<>>), cluster(b))
       \/ Step(Call("expire_time", <<>>), expire_time(b))
       \/ Step(Call("start_time", <<>>), start_time(b))
       \/ Step(Call("end_time", <<>>), end_time(b))
       \/ Step(Call("size_bytes", <<>>), size_bytes(b))
       \/ Step(Call("state", <<>>), state(b))
    /\ UNCHANGED refreshed

SetCluster ==
    \E cluster_id \in ClusterArgs \ {<<"C", "1">>} :
        /\ Step(Call("cluster.setter", <<cluster_id>>), cluster_setter(b, cluster_id))
        /\ UNCHANGED refreshed

SetExpireTime ==
    \E new_expire_time \in ExpireArgs :
        /\ Step(Call("expire_time.setter", <<new_expire_time>>),
                expire_time_setter(b, new_expire_time))
        /\ UNCHANGED refreshed

\* table_id is a plain attribute: the caller assigns it
SetTableId ==
    \E table_id \in TableArgs :
        /\ Step(Call("table_id", <<table_id>>), Return([b EXCEPT !.table_id = table_id], None))
        /\ UNCHANGED refreshed

Next ==
    \/ Create
    \/ Get
    \/ Refresh
    \/ Exists
    \/ UpdateExpireTime
    \/ IsReady
    \/ Delete
    \/ Restore
    \/ ReadName
    \/ ReadParent
    \/ ReadSourceTable
    \/ ReadProperty
    \/ SetCluster
    \/ SetExpireTime
    \/ SetTableId

Spec == Init /\ [][Next]_vars

(***************************************************************************)
(* The name parser as a function of its inputs: names are built by name()  *)
(* of Backup objects over the whole input sets, then handed to from_pb,    *)
(* as they are or damaged, with each Instance as the expected owner.       *)
(***************************************************************************)
INVALID_NAME == <<"i", "n", "v", "a", "l", "i", "d", "_", "n", "a", "m", "e">>

PathsOf(d) ==
    {<<>>, INVALID_NAME}
    \cup (IF name(d).kind = "return"
          THEN {name(d).val,
                name(d).val \o <<"\n">>,
                name(d).val \o <<"/", "x">>,
                parent(d).val}
          ELSE {})

InitParse ==
    /\ \E backup_id \in BackupIds, instance \in Instances, cluster_id \in ClusterArgs :
            b = Backup(backup_id, instance, cluster_id, None, None)
    /\ pre = b
    /\ op = Call("__init__", <<>>)
    /\ res = [kind |-> "return", val |-> None]
    /\ calls = <<>>
    /\ refreshed = FALSE

FromPb ==
    \E path \in PathsOf(b), instance \in Instances :
        LET backup_pb == [name |-> path]
            r == from_pb(backup_pb, instance)
        IN /\ pre' = b
           /\ b' = b
           /\ op' = Call("from_pb", <<backup_pb, instance>>)
           /\ res' = [kind |-> r.kind, val |-> r.val]
           /\ calls' = r.calls
           /\ UNCHANGED refreshed

NextParse == FromPb

SpecParse == InitParse /\ [][NextParse]_vars

(***************************************************************************)
(* What the claims are stated with.                                        *)
(***************************************************************************)
ValueErrorWith(msg) == res.kind = "ValueError" /\ res.val = msg

\* the cluster create(cluster_id) is to use: its parameter if given, else
\* the stored one
EffectiveCluster == IF Truthy(op.args[1]) THEN op.args[1] ELSE pre.cluster

\* {instancePath}/clusters/{clusterId} and .../backups/{backupId}, written out
ClusterPath(inst, cluster_id) ==
    LIT_projects \o inst.project \o LIT_instances \o inst.instance_id
        \o LIT_clusters \o cluster_id
BackupPath(inst, cluster_id, backup_id) ==
    ClusterPath(inst, cluster_id) \o LIT_backups \o backup_id

ServerFields(d) == <<d.start_time, d.end_time, d.size_bytes, d.state>>

\* The canonical path grammar, by segments:
\*   projects/{project}/instances/{instance_id}/clusters/{cluster_id}/backups/{backup_id}
IsProject(x) == Len(x) >= 1 /\ \A k \in 1..Len(x) : x[k] # "/"
IsId(x) ==
    /\ Len(x) >= 1
    /\ x[1] \in Lower
    /\ \A k \in 2..Len(x) : x[k] \in Lower \cup Digit \cup {"-"}
IsBackupId(x) ==
    /\ Len(x) >= 2
    /\ x[1] \in Lower
    /\ \A k \in 2..(Len(x) - 1) : x[k] \in Lower \cup Digit \cup {"_", "-"}
    /\ x[Len(x)] \in Lower \cup Digit

RECURSIVE Segments(_)
Segments(s) ==
    IF \A k \in 1..Len(s) : s[k] # "/"
    THEN <<s>>
    ELSE LET i == CHOOSE k \in 1..Len(s) : s[k] = "/" /\ \A j \in 1..(k - 1) : s[j] # "/"
         IN <<SubSeq(s, 1, i - 1)>> \o Segments(SubSeq(s, i + 1, Len(s)))

Word(lit) == SelectSeq(lit, LAMBDA c : c # "/")

InGrammar(path) ==
    LET seg == Segments(path)
    IN /\ Len(seg) = 8
       /\ seg[1] = Word(LIT_projects) /\ IsProject(seg[2])
       /\ seg[3] = Word(LIT_instances) /\ IsId(seg[4])
       /\ seg[5] = Word(LIT_clusters) /\ IsId(seg[6])
       /\ seg[7] = Word(LIT_backups) /\ IsBackupId(seg[8])

C2_ValidationFailureHasNoEffect ==
    (/\ op.name \in {"create", "get", "exists", "refresh", "update_expire_time",
                     "delete", "restore"}
     /\ res.kind = "ValueError")
        => calls = <<>> /\ b = pre

\* create(cluster_id) given a cluster other than the stored one, failing
C2_Witness ==
    /\ op.name = "create"
    /\ Truthy(op.args[1]) /\ op.args[1] # pre.cluster
    /\ res.kind = "ValueError"

(***************************************************************************)
(* C3: get() on an object whose cluster is set makes exactly one           *)
(* get_backup call, for the object's name; it returns what the call        *)
(* returned, None when the call raised NotFound, and raises any other      *)
(* error of the call as it is.                                             *)
(***************************************************************************)
C3_GetOutcomes ==
    (op.name = "get" /\ Truthy(pre.cluster)) =>
        /\ Len(calls) = 1
        /\ calls[1].method = "get_backup"
        /\ calls[1].args = <<BackupPath(pre.instance, pre.cluster, pre.backup_id)>>
        /\ LET reply == calls[1].reply
           IN IF reply.ok THEN res.kind = "return" /\ res.val = reply.val
              ELSE IF reply.val[2] = "NotFound" THEN res.kind = "return" /\ res.val = None
              ELSE res.kind = reply.val[2]

\* get() whose call failed with an error other than NotFound
C3_Witness ==
    /\ op.name = "get"
    /\ Len(calls) = 1 /\ ~calls[1].reply.ok
    /\ res.kind = "PermissionDenied"

(***************************************************************************)
(* C4: update_expire_time(new) changes the local expire_time only when its *)
(* update_backup call has succeeded, and then to new; when the call fails  *)
(* the object is unchanged and the call's error is raised.                 *)
(***************************************************************************)
C4_UpdateExpireTimeCommitsAfterCall ==
    op.name = "update_expire_time" =>
        /\ Len(calls) <= 1
        /\ b.expire_time # pre.expire_time =>
               /\ Len(calls) = 1 /\ calls[1].method = "update_backup" /\ calls[1].reply.ok
               /\ b.expire_time = op.args[1]
        /\ (Len(calls) = 1 /\ calls[1].reply.ok) =>
               res.kind = "return" /\ b = [pre EXCEPT !.expire_time = op.args[1]]
        /\ (Len(calls) = 1 /\ ~calls[1].reply.ok) =>
               res.kind = calls[1].reply.val[2] /\ b = pre

\* a failed update to a value other than the stored one
C4_Witness ==
    /\ op.name = "update_expire_time"
    /\ Len(calls) = 1 /\ ~calls[1].reply.ok
    /\ op.args[1] # pre.expire_time
    /\ res.kind = "NotFound"

C6_ParseNameErrors ==
    /\ MSG_FORMAT # MSG_PROJECT /\ MSG_FORMAT # MSG_INSTANCE
    /\ op.name = "from_pb" =>
        LET path == op.args[1].name
            instance == op.args[2]
            seg == Segments(path)
        IN IF ~InGrammar(path) THEN ValueErrorWith(MSG_FORMAT)
           ELSE IF seg[2] # instance.project THEN ValueErrorWith(MSG_PROJECT)
           ELSE IF seg[4] # instance.instance_id THEN ValueErrorWith(MSG_INSTANCE)
           ELSE res.kind = "return"

(***************************************************************************)
(* C7: for a Backup whose project, instance id, cluster id and backup id   *)
(* are of the grammar, from_pb of its name, with its own instance as the   *)
(* expected one, succeeds and returns a Backup of the same backup_id.      *)
(***************************************************************************)
C7_NameRoundTrip ==
    (/\ op.name = "from_pb"
     /\ Truthy(b.cluster)
     /\ IsProject(b.instance.project) /\ IsId(b.instance.instance_id)
     /\ IsId(b.cluster) /\ IsBackupId(b.backup_id)
     /\ op.args[1].name = name(b).val
     /\ op.args[2] = b.instance)
        => res.kind = "return" /\ res.val.backup_id = b.backup_id

\* the round trip of a backup id with an underscore
C7_Witness ==
    /\ op.name = "from_pb"
    /\ Truthy(b.cluster) /\ IsId(b.cluster) /\ IsBackupId(b.backup_id)
    /\ b.backup_id = <<"b", "_", "a">>
    /\ op.args[1].name = BackupPath(b.instance, b.cluster, b.backup_id)
    /\ op.args[2] = b.instance
    /\ res.kind = "return"

C9_ServerFieldsOnlyByRefresh ==
    /\ ~(op.name = "refresh" /\ res.kind = "return") => ServerFields(b) = ServerFields(pre)
    /\ ~refreshed => ServerFields(b) = <<None, None, None, None>>

\* get() returned the server's READY backup to an object never refreshed
C9_Witness ==
    /\ ~refreshed
    /\ op.name = "get" /\ res.kind = "return" /\ res.val # None
    /\ res.val[2].state = READY
    /\ b.state = None

(***************************************************************************)
(* C10: a create(cluster_id) that passes validation stores the effective   *)
(* cluster and makes one create_backup call, to the parent                 *)
(* {instancePath}/clusters/{effective cluster}, with the object's          *)
(* backup_id.                                                              *)
(***************************************************************************)
C10_CreateTargetsEffectiveCluster ==
    (op.name = "create" /\ res.kind # "ValueError") =>
        /\ b.cluster = EffectiveCluster
        /\ Len(calls) = 1
        /\ calls[1].method = "create_backup"
        /\ calls[1].args[1] = ClusterPath(pre.instance, EffectiveCluster)
        /\ calls[1].args[2] = pre.backup_id

(***************************************************************************)
(* C11: source_table returns {instancePath}/tables/{table_id} for the      *)
(* table_id the object holds when it is read, and None when table_id is    *)
(* not set, whatever was read, assigned or refreshed before.               *)
(***************************************************************************)
C11_SourceTableFromCurrentTableId ==
    op.name = "source_table" =>
        /\ res.kind = "return"
        /\ IF Truthy(pre.table_id)
           THEN res.val = LIT_projects \o pre.instance.project \o LIT_instances
                              \o pre.instance.instance_id \o LIT_tables \o pre.table_id
           ELSE res.val = None

====
